---- MODULE Spec2Model ----
(***************************************************************************)
(* release_pipeline.py: a script that builds a SageMaker pipeline          *)
(* definition (parameters, five steps, their data references), publishes   *)
(* it with pipeline.upsert and triggers one run with pipeline.start.       *)
(*                                                                         *)
(* The script is modelled statement by statement (pc, the module           *)
(* namespace env, the log of executed statements).  The remote service is  *)
(* modelled by the published definition and the started executions, whose  *)
(* steps an engine starts when the steps they reference have completed.    *)
(* Floats are hundredths (0.75 is 75).                                     *)
(***************************************************************************)
EXTENDS Naturals, Sequences, FiniteSets, TLC

VARIABLES
    world,      \* what the ambient account answers: bucket, region, role
    thr,        \* thr[r]: the literal default_value of AccuracyThreshold in run r's script
    pc,         \* pc[r]: the statement run r executes next, or "done" / "failed" / "off"
    env,        \* env[r]: the module namespace of run r (Python name -> object)
    log,        \* log[r]: the statements run r has executed, each with its outcome
    published,  \* the remote service's stored pipeline definitions (by upsert)
    execs       \* the remote service's pipeline executions (by start)

vars == <<world, thr, pc, env, log, published, execs>>

----------------------------------------------------------------------------
(* Bounds of the model *)

NumBuckets == 2
ThresholdSpread == 1

(* Program constants *)

AccuracyThresholdDefault == 75

Runs == {1, 2}
Buckets == 1..NumBuckets
Regions == {"us-east-1", "eu-west-1"}
Roles == {"arn:aws:iam::role/exec"}
Thresholds == (AccuracyThresholdDefault - ThresholdSpread)..(AccuracyThresholdDefault + ThresholdSpread)
AccuracyValues == (AccuracyThresholdDefault - ThresholdSpread)..(AccuracyThresholdDefault + ThresholdSpread)

----------------------------------------------------------------------------
(* Objects the script constructs.  Every operator takes what the          *)
(* statement reads and returns the object the statement binds.            *)

S3Uri(b, key) == [bucket |-> b, key |-> key]

NoRef == [kind |-> "Literal", step |-> "", item |-> "", output_name |-> "", path |-> ""]

\* a pipeline parameter used as a value
ParameterRef(p) ==
    [kind |-> "Parameter", step |-> "", item |-> p.name, output_name |-> "", path |-> ""]

\* step.properties.ProcessingOutputConfig.Outputs[output_name].S3Output.S3Uri
ProcessingOutputRef(step, output_name) ==
    [kind |-> "ProcessingOutput", step |-> step.name, item |-> "S3Output.S3Uri",
     output_name |-> output_name, path |-> ""]

\* step.properties.ModelArtifacts.S3ModelArtifacts
ModelArtifactsRef(step) ==
    [kind |-> "ModelArtifacts", step |-> step.name, item |-> "S3ModelArtifacts",
     output_name |-> "", path |-> ""]

\* property_file.prop(path)
PropertyFileRef(pf, path) ==
    [kind |-> "PropertyFile", step |-> "", item |-> pf.name,
     output_name |-> pf.output_name, path |-> path]

image_uris_retrieve(framework, reg, version) ==
    [framework |-> framework, region |-> reg, version |-> version]

NoCompute ==
    [image_uri |-> image_uris_retrieve("", "", ""), command |-> <<>>, instance_type |-> "",
     instance_count |-> 0, role |-> "", output_path |-> S3Uri(0, ""),
     hyperparameters |-> <<>>]

\* the fields every step record carries; a constructor overrides its own
StepBase ==
    [name |-> "", kind |-> "", compute |-> NoCompute, inputs |-> <<>>, outputs |-> <<>>,
     code |-> "", property_files |-> <<>>, conditions |-> <<>>, if_steps |-> <<>>,
     else_steps |-> <<>>, model_package_group_name |-> "", approval_status |-> ""]

input_data(b) ==
    [name |-> "InputDataUrl", type |-> "String",
     default_value |-> [s3 |-> S3Uri(b, "credit-risk/raw/data.csv"), number |-> 0]]

accuracy_threshold(t) ==
    [name |-> "AccuracyThreshold", type |-> "Float",
     default_value |-> [s3 |-> S3Uri(0, ""), number |-> t]]

processor(reg, rl) ==
    [NoCompute EXCEPT !.image_uri = image_uris_retrieve("sklearn", reg, "1.0-1"),
                      !.command = <<"python3">>,
                      !.instance_type = "ml.m5.large",
                      !.instance_count = 1,
                      !.role = rl]

\* variant: the first output is declared under another name than the one TrainModel reads
processing_step_renamed_output(proc, indata, b) ==
    [StepBase EXCEPT
        !.name = "PreprocessData",
        !.kind = "Processing",
        !.compute = proc,
        !.inputs = << [channel |-> "", source |-> ParameterRef(indata),
                       destination |-> "/opt/ml/processing/input"] >>,
        !.outputs = << [output_name |-> "training", source |-> "/opt/ml/processing/train",
                        destination |-> S3Uri(b, "credit-risk/processed/train")],
                       [output_name |-> "test", source |-> "/opt/ml/processing/test",
                        destination |-> S3Uri(b, "credit-risk/processed/test")] >>,
        !.code = "scripts/preprocess.py"]

\* variant: preprocessing also reads the evaluation output, closing a cycle
processing_step_cyclic(proc, indata, b) ==
    [StepBase EXCEPT
        !.name = "PreprocessData",
        !.kind = "Processing",
        !.compute = proc,
        !.inputs = << [channel |-> "", source |-> ParameterRef(indata),
                       destination |-> "/opt/ml/processing/input"],
                      [channel |-> "",
                       source |-> ProcessingOutputRef([name |-> "EvaluateModel"], "evaluation"),
                       destination |-> "/opt/ml/processing/previous"] >>,
        !.outputs = << [output_name |-> "train", source |-> "/opt/ml/processing/train",
                        destination |-> S3Uri(b, "credit-risk/processed/train")],
                       [output_name |-> "test", source |-> "/opt/ml/processing/test",
                        destination |-> S3Uri(b, "credit-risk/processed/test")] >>,
        !.code = "scripts/preprocess.py"]

processing_step(proc, indata, b) ==
    [StepBase EXCEPT
        !.name = "PreprocessData",
        !.kind = "Processing",
        !.compute = proc,
        !.inputs = << [channel |-> "", source |-> ParameterRef(indata),
                       destination |-> "/opt/ml/processing/input"] >>,
        !.outputs = << [output_name |-> "train", source |-> "/opt/ml/processing/train",
                        destination |-> S3Uri(b, "credit-risk/processed/train")],
                       [output_name |-> "test", source |-> "/opt/ml/processing/test",
                        destination |-> S3Uri(b, "credit-risk/processed/test")] >>,
        !.code = "scripts/preprocess.py"]

estimator(reg, rl, b) ==
    [NoCompute EXCEPT !.image_uri = image_uris_retrieve("xgboost", reg, "1.5-1"),
                      !.role = rl,
                      !.instance_count = 1,
                      !.instance_type = "ml.m5.large",
                      !.output_path = S3Uri(b, "credit-risk/models")]

set_hyperparameters(est) ==
    [est EXCEPT !.hyperparameters =
        << <<"objective", "binary:logistic">>, <<"num_round", "200">>,
           <<"max_depth", "5">>, <<"eta", "0.2">> >>]

\* variant: the training channel is a fixed S3 location, not the preprocessing output
training_step_static_input(est, pstep) ==
    [StepBase EXCEPT
        !.name = "TrainModel",
        !.kind = "Training",
        !.compute = est,
        !.inputs = << [channel |-> "train", source |-> NoRef, destination |-> ""] >>]

training_step(est, pstep) ==
    [StepBase EXCEPT
        !.name = "TrainModel",
        !.kind = "Training",
        !.compute = est,
        !.inputs = << [channel |-> "train", source |-> ProcessingOutputRef(pstep, "train"),
                       destination |-> ""] >>]

evaluation_report ==
    [name |-> "EvaluationReport", output_name |-> "evaluation", path |-> "evaluation.json"]

evaluation_step(proc, tstep, pstep, report, b) ==
    [StepBase EXCEPT
        !.name = "EvaluateModel",
        !.kind = "Processing",
        !.compute = proc,
        !.inputs = << [channel |-> "", source |-> ModelArtifactsRef(tstep),
                       destination |-> "/opt/ml/processing/model"],
                      [channel |-> "", source |-> ProcessingOutputRef(pstep, "test"),
                       destination |-> "/opt/ml/processing/test"] >>,
        !.outputs = << [output_name |-> "evaluation",
                        source |-> "/opt/ml/processing/evaluation",
                        destination |-> S3Uri(b, "credit-risk/evaluation")] >>,
        !.code = "scripts/evaluate.py",
        !.property_files = << report >>]

cond_step(report, threshold) ==
    [StepBase EXCEPT
        !.name = "AccuracyCheck",
        !.kind = "Condition",
        !.conditions = << [type |-> "GreaterThanOrEqualTo",
                           left |-> PropertyFileRef(report, "metrics.accuracy"),
                           right |-> ParameterRef(threshold)] >>,
        !.if_steps = <<>>,
        !.else_steps = <<>>]

register_step(est) ==
    [StepBase EXCEPT
        !.name = "RegisterModel",
        !.kind = "RegisterModel",
        !.compute = est,
        !.model_package_group_name = "CreditRiskModelGroup",
        !.approval_status = "PendingManualApproval"]

\* variant: accuracy_threshold is left out of the parameter list
pipeline_without_threshold(e) ==
    [name |-> "CreditRiskPipeline",
     parameters |-> << e.input_data >>,
     steps |-> << e.processing_step, e.training_step, e.evaluation_step,
                  e.cond_step, e.register_step >>]

\* variant: the registration step is listed only for a default threshold up to 0.75
pipeline_by_threshold(e) ==
    [name |-> "CreditRiskPipeline",
     parameters |-> << e.input_data, e.accuracy_threshold >>,
     steps |-> << e.processing_step, e.training_step, e.evaluation_step, e.cond_step >>
               \o (IF e.accuracy_threshold.default_value.number <= AccuracyThresholdDefault
                   THEN << e.register_step >> ELSE <<>>)]

\* variant: the steps are listed in an order that depends on what the service holds
\* when the script runs
pipeline_by_remote_state(e) ==
    [name |-> "CreditRiskPipeline",
     parameters |-> << e.input_data, e.accuracy_threshold >>,
     steps |-> IF published = <<>>
               THEN << e.processing_step, e.training_step, e.evaluation_step,
                       e.cond_step, e.register_step >>
               ELSE << e.register_step, e.processing_step, e.training_step,
                       e.evaluation_step, e.cond_step >>]

pipeline(e) ==
    [name |-> "CreditRiskPipeline",
     parameters |-> << e.input_data, e.accuracy_threshold >>,
     steps |-> << e.processing_step, e.training_step, e.evaluation_step,
                  e.cond_step, e.register_step >>]

----------------------------------------------------------------------------
(* The script, one action per statement *)

Statements ==
    << "session", "role", "bucket", "region", "input_data", "accuracy_threshold",
       "processor", "processing_step", "estimator", "set_hyperparameters",
       "training_step", "evaluation_report", "evaluation_step", "cond_step",
       "register_step", "pipeline", "upsert", "start" >>

StatementSet == {Statements[i] : i \in 1..Len(Statements)}

IndexOf(stmt) == CHOOSE i \in 1..Len(Statements) : Statements[i] = stmt

\* the statement after stmt; after the last one the script has run to its end
Following(stmt) ==
    IF IndexOf(stmt) = Len(Statements) THEN "done" ELSE Statements[IndexOf(stmt) + 1]

\* stmt returned normally, binding name to value
Bind(r, stmt, name, value) ==
    /\ pc[r] = stmt
    /\ env' = [env EXCEPT ![r] = (name :> value) @@ env[r]]
    /\ pc' = [pc EXCEPT ![r] = Following(stmt)]
    /\ log' = [log EXCEPT ![r] = Append(log[r], [stmt |-> stmt, ok |-> TRUE])]
    /\ UNCHANGED <<world, thr, published, execs>>

Session(r) == Bind(r, "session", "session", world)

GetExecutionRole(r) == Bind(r, "role", "role", world.role)

DefaultBucket(r) == Bind(r, "bucket", "bucket", env[r].session.bucket)

BotoRegionName(r) == Bind(r, "region", "region", env[r].session.region)

InputData(r) == Bind(r, "input_data", "input_data", input_data(env[r].bucket))

AccuracyThreshold(r) ==
    Bind(r, "accuracy_threshold", "accuracy_threshold", accuracy_threshold(thr[r]))

Processor(r) == Bind(r, "processor", "processor", processor(env[r].region, env[r].role))

ProcessingStepStmt(r) ==
    Bind(r, "processing_step", "processing_step",
         processing_step(env[r].processor, env[r].input_data, env[r].bucket))

EstimatorStmt(r) ==
    Bind(r, "estimator", "estimator",
         estimator(env[r].region, env[r].role, env[r].bucket))

SetHyperparameters(r) ==
    Bind(r, "set_hyperparameters", "estimator", set_hyperparameters(env[r].estimator))

TrainingStepStmt(r) ==
    Bind(r, "training_step", "training_step",
         training_step(env[r].estimator, env[r].processing_step))

EvaluationReport(r) == Bind(r, "evaluation_report", "evaluation_report", evaluation_report)

EvaluationStepStmt(r) ==
    Bind(r, "evaluation_step", "evaluation_step",
         evaluation_step(env[r].processor, env[r].training_step, env[r].processing_step,
                         env[r].evaluation_report, env[r].bucket))

CondStepStmt(r) ==
    Bind(r, "cond_step", "cond_step",
         cond_step(env[r].evaluation_report, env[r].accuracy_threshold))

RegisterStepStmt(r) ==
    Bind(r, "register_step", "register_step", register_step(env[r].estimator))

PipelineStmt(r) == Bind(r, "pipeline", "pipeline", pipeline(env[r]))

\* what pipeline.start() makes of a stored definition: no parameter is overridden,
\* so every parameter takes its default; no step has started
StepNode(step, cond, branch) == [step |-> step, gate |-> [cond |-> cond, branch |-> branch]]

Gated(steps, cond, branch) == [i \in 1..Len(steps) |-> StepNode(steps[i], cond, branch)]

\* the steps of a definition: the listed ones, each condition step followed by the
\* steps of its two branches
RECURSIVE Nodes(_)
Nodes(steps) ==
    IF steps = <<>> THEN <<>>
    ELSE LET s == Head(steps)
         IN  << StepNode(s, "", TRUE) >> \o Gated(s.if_steps, s.name, TRUE)
                \o Gated(s.else_steps, s.name, FALSE) \o Nodes(Tail(steps))

NewExecution(definition) ==
    [nodes |-> Nodes(definition.steps),
     parameters |-> [i \in 1..Len(definition.parameters) |->
                        [name |-> definition.parameters[i].name,
                         value |-> definition.parameters[i].default_value]],
     status |-> [i \in 1..Len(Nodes(definition.steps)) |-> "NotStarted"],
     count |-> [i \in 1..Len(Nodes(definition.steps)) |-> 0],
     reports |-> <<>>,
     outcomes |-> <<>>]

\* pipeline.upsert(role_arn=role): the service stores the definition under its name
Upsert(r) ==
    /\ pc[r] = "upsert"
    /\ published' = << [definition |-> env[r].pipeline, role_arn |-> env[r].role] >>
    /\ pc' = [pc EXCEPT ![r] = Following("upsert")]
    /\ log' = [log EXCEPT ![r] = Append(log[r], [stmt |-> "upsert", ok |-> TRUE])]
    /\ UNCHANGED <<world, thr, env, execs>>

\* variant: start is called a second time
StartTwice(r) ==
    /\ pc[r] = "start"
    /\ published # <<>>
    /\ execs' = execs \o << NewExecution(published[1].definition),
                            NewExecution(published[1].definition) >>
    /\ pc' = [pc EXCEPT ![r] = Following("start")]
    /\ log' = [log EXCEPT ![r] = log[r] \o << [stmt |-> "start", ok |-> TRUE],
                                              [stmt |-> "start", ok |-> TRUE] >>]
    /\ UNCHANGED <<world, thr, env, published>>

\* pipeline.start(): the service starts an execution of the stored definition and
\* returns at once
Start(r) ==
    /\ pc[r] = "start"
    /\ published # <<>>
    /\ published[1].definition.name = env[r].pipeline.name
    /\ execs' = Append(execs, NewExecution(published[1].definition))
    /\ pc' = [pc EXCEPT ![r] = Following("start")]
    /\ log' = [log EXCEPT ![r] = Append(log[r], [stmt |-> "start", ok |-> TRUE])]
    /\ UNCHANGED <<world, thr, env, published>>

\* variant: the exception is caught and the script goes on
RaiseSwallowed(r) ==
    /\ pc[r] \in StatementSet
    /\ pc' = [pc EXCEPT ![r] = Following(pc[r])]
    /\ log' = [log EXCEPT ![r] = Append(log[r], [stmt |-> pc[r], ok |-> FALSE])]
    /\ UNCHANGED <<world, thr, env, published, execs>>

\* the statement raises: nothing catches it, the interpreter exits
Raise(r) ==
    /\ pc[r] \in StatementSet
    /\ pc' = [pc EXCEPT ![r] = "failed"]
    /\ log' = [log EXCEPT ![r] = Append(log[r], [stmt |-> pc[r], ok |-> FALSE])]
    /\ UNCHANGED <<world, thr, env, published, execs>>

ScriptStep(r) ==
    \/ Session(r)
    \/ GetExecutionRole(r)
    \/ DefaultBucket(r)
    \/ BotoRegionName(r)
    \/ InputData(r)
    \/ AccuracyThreshold(r)
    \/ Processor(r)
    \/ ProcessingStepStmt(r)
    \/ EstimatorStmt(r)
    \/ SetHyperparameters(r)
    \/ TrainingStepStmt(r)
    \/ EvaluationReport(r)
    \/ EvaluationStepStmt(r)
    \/ CondStepStmt(r)
    \/ RegisterStepStmt(r)
    \/ PipelineStmt(r)
    \/ Upsert(r)
    \/ Start(r)
    \/ Raise(r)

----------------------------------------------------------------------------
(* The execution engine of the remote service: a step starts when every   *)
(* step it references has completed.                                      *)

SeqRange(s) == {s[i] : i \in 1..Len(s)}

\* the references a step makes: its inputs' sources and its conditions' operands
References(step) ==
    {step.inputs[i].source : i \in 1..Len(step.inputs)}
    \cup {step.conditions[i].left : i \in 1..Len(step.conditions)}
    \cup {step.conditions[i].right : i \in 1..Len(step.conditions)}

StepReferences(step) ==
    {ref \in References(step) : ref.kind \in {"ProcessingOutput", "ModelArtifacts", "PropertyFile"}}

\* whether the step declares what ref names
Declares(step, ref) ==
    CASE ref.kind = "ProcessingOutput" ->
            /\ step.name = ref.step
            /\ \E o \in SeqRange(step.outputs) : o.output_name = ref.output_name
      [] ref.kind = "ModelArtifacts" ->
            /\ step.name = ref.step
            /\ step.kind = "Training"
      [] ref.kind = "PropertyFile" ->
            /\ \E pf \in SeqRange(step.property_files) :
                  /\ pf.name = ref.item
                  /\ pf.output_name = ref.output_name
            /\ \E o \in SeqRange(step.outputs) : o.output_name = ref.output_name
      [] OTHER -> FALSE

\* the nodes of an execution that produce what ref names
Producers(nodes, ref) == {j \in 1..Len(nodes) : Declares(nodes[j].step, ref)}

\* the nodes node i waits for
Dependencies(nodes, i) ==
    UNION {Producers(nodes, ref) : ref \in StepReferences(nodes[i].step)}

Dangling(nodes, i) ==
    \E ref \in StepReferences(nodes[i].step) : Producers(nodes, ref) = {}

\* the branch of a condition step a node sits in has been chosen
GateOpen(ex, i) ==
    \/ ex.nodes[i].gate.cond = ""
    \/ \E o \in SeqRange(ex.outcomes) :
          /\ o.cond = ex.nodes[i].gate.cond
          /\ o.value = ex.nodes[i].gate.branch

Ready(ex, i) ==
    /\ ex.status[i] = "NotStarted"
    /\ \A j \in 1..Len(ex.nodes) : ex.status[j] # "Failed"
    /\ ~Dangling(ex.nodes, i)
    /\ \A j \in Dependencies(ex.nodes, i) : ex.status[j] = "Succeeded"
    /\ GateOpen(ex, i)

StepStart(e, i) ==
    /\ e \in 1..Len(execs)
    /\ i \in 1..Len(execs[e].nodes)
    /\ Ready(execs[e], i)
    /\ execs' = [execs EXCEPT ![e].status[i] = "Executing",
                              ![e].count[i] = @ + 1]
    /\ UNCHANGED <<world, thr, pc, env, log, published>>

\* the value an operand of a condition has in an execution: << v >>, or << >> when
\* the property file was not written or the parameter is unknown
OperandValue(ex, ref) ==
    CASE ref.kind = "PropertyFile" ->
            LET found == {k \in 1..Len(ex.reports) : ex.reports[k].name = ref.item}
            IN  IF found = {} THEN <<>>
                ELSE << ex.reports[CHOOSE k \in found : TRUE].accuracy >>
      [] ref.kind = "Parameter" ->
            LET found == {k \in 1..Len(ex.parameters) : ex.parameters[k].name = ref.item}
            IN  IF found = {} THEN <<>>
                ELSE << ex.parameters[CHOOSE k \in found : TRUE].value.number >>
      [] OTHER -> <<>>

Evaluable(ex, step) ==
    \A c \in SeqRange(step.conditions) :
        OperandValue(ex, c.left) # <<>> /\ OperandValue(ex, c.right) # <<>>

\* ConditionGreaterThanOrEqualTo(left, right), all conditions of the step together
ConditionHolds(ex, step) ==
    \A c \in SeqRange(step.conditions) :
        OperandValue(ex, c.left)[1] >= OperandValue(ex, c.right)[1]

\* a processing step with property files writes them (the evaluation script's
\* metrics.accuracy is any value); a condition step records its outcome
StepSucceed(e, i) ==
    /\ e \in 1..Len(execs)
    /\ i \in 1..Len(execs[e].nodes)
    /\ execs[e].status[i] = "Executing"
    /\ LET ex == execs[e]
           step == ex.nodes[i].step
       IN  \/ /\ step.kind = "Condition"
              /\ Evaluable(ex, step)
              /\ execs' = [execs EXCEPT
                    ![e].status[i] = "Succeeded",
                    ![e].outcomes = Append(@, [cond |-> step.name,
                                               value |-> ConditionHolds(ex, step)])]
           \/ /\ step.kind # "Condition"
              /\ step.property_files # <<>>
              /\ \E a \in AccuracyValues :
                    execs' = [execs EXCEPT
                        ![e].status[i] = "Succeeded",
                        ![e].reports = @ \o [k \in 1..Len(step.property_files) |->
                                                [name |-> step.property_files[k].name,
                                                 accuracy |-> a]]]
           \/ /\ step.kind # "Condition"
              /\ step.property_files = <<>>
              /\ execs' = [execs EXCEPT ![e].status[i] = "Succeeded"]
    /\ UNCHANGED <<world, thr, pc, env, log, published>>

StepFail(e, i) ==
    /\ e \in 1..Len(execs)
    /\ i \in 1..Len(execs[e].nodes)
    /\ execs[e].status[i] = "Executing"
    /\ execs' = [execs EXCEPT ![e].status[i] = "Failed"]
    /\ UNCHANGED <<world, thr, pc, env, log, published>>

EngineStart == \E e \in 1..Len(execs) : \E i \in 1..Len(execs[e].nodes) : StepStart(e, i)

EngineSucceed == \E e \in 1..Len(execs) : \E i \in 1..Len(execs[e].nodes) : StepSucceed(e, i)

EngineFail == \E e \in 1..Len(execs) : \E i \in 1..Len(execs[e].nodes) : StepFail(e, i)

----------------------------------------------------------------------------
(* Specifications *)

NoEnv == [x \in {} |-> 0]

\* one run of the script as written, and the remote service
Init ==
    /\ world \in [bucket : Buckets, region : Regions, role : Roles]
    /\ thr = [r \in Runs |-> AccuracyThresholdDefault]
    /\ pc = [r \in Runs |-> IF r = 1 THEN "session" ELSE "off"]
    /\ env = [r \in Runs |-> NoEnv]
    /\ log = [r \in Runs |-> <<>>]
    /\ published = <<>>
    /\ execs = <<>>

Next ==
    \/ \E r \in Runs : ScriptStep(r)
    \/ EngineStart
    \/ EngineSucceed
    \/ EngineFail

Spec == Init /\ [][Next]_vars

\* the engine is fair: a step that can start starts, a step that runs ends
LiveSpec ==
    /\ Spec
    /\ WF_vars(EngineStart)
    /\ WF_vars(EngineSucceed \/ EngineFail)

\* two runs of the script in the same account, each with its own literal for the
\* default of AccuracyThreshold
InitPair ==
    /\ world \in [bucket : Buckets, region : Regions, role : Roles]
    /\ thr \in [Runs -> Thresholds]
    /\ pc = [r \in Runs |-> "session"]
    /\ env = [r \in Runs |-> NoEnv]
    /\ log = [r \in Runs |-> <<>>]
    /\ published = <<>>
    /\ execs = <<>>

NextPair == \E r \in Runs : ScriptStep(r)

SpecPair == InitPair /\ [][NextPair]_vars

----------------------------------------------------------------------------
(* Vocabulary of the properties *)

Has(r, name) == name \in DOMAIN env[r]

Built(r) == Has(r, "pipeline")

NodesNamed(ex, name) == {i \in 1..Len(ex.nodes) : ex.nodes[i].step.name = name}

Started(ex, name) == \E i \in NodesNamed(ex, name) : ex.status[i] # "NotStarted"

Running(ex, name) == \E i \in NodesNamed(ex, name) : ex.status[i] = "Executing"

Completed(ex, name) == \E i \in NodesNamed(ex, name) : ex.status[i] = "Succeeded"

Executions == {execs[e] : e \in 1..Len(execs)}

\* metrics.accuracy of the evaluation report and the threshold of an execution
Accuracy(ex) == OperandValue(ex, PropertyFileRef(evaluation_report, "metrics.accuracy"))

Threshold(ex) == OperandValue(ex, ParameterRef(accuracy_threshold(0)))

StepNames == {"PreprocessData", "TrainModel", "EvaluateModel", "AccuracyCheck", "RegisterModel"}

----------------------------------------------------------------------------
\* C1: in every execution whose evaluation report has been written, RegisterModel
\* has started only if metrics.accuracy >= AccuracyThreshold; with
\* metrics.accuracy < AccuracyThreshold no model is registered.
C1_RegisterOnlyIfAccurate ==
    \A ex \in Executions :
        (Accuracy(ex) # <<>> /\ Started(ex, "RegisterModel"))
            => (Threshold(ex) # <<>> /\ Accuracy(ex)[1] >= Threshold(ex)[1])

\* C2: RegisterModel does not start before AccuracyCheck has completed.
C2_RegisterAfterCheck ==
    \A ex \in Executions :
        Started(ex, "RegisterModel") => Completed(ex, "AccuracyCheck")

----------------------------------------------------------------------------
\* a reference of a pipeline resolves: a parameter of its parameter list, or
\* something a step of its step list declares
Resolves(p, ref) ==
    CASE ref.kind = "Parameter" ->
            \E q \in SeqRange(p.parameters) : q.name = ref.item
      [] ref.kind = "Literal" -> TRUE
      [] OTHER -> \E j \in 1..Len(Nodes(p.steps)) : Declares(Nodes(p.steps)[j].step, ref)

NoDanglingReference(p) ==
    \A i \in 1..Len(Nodes(p.steps)) :
        \A ref \in References(Nodes(p.steps)[i].step) : Resolves(p, ref)

\* the references the script declares, by step
DeclaredReferences(p) ==
    /\ Len(p.steps) = 5
    /\ StepReferences(p.steps[2]) =
          {[kind |-> "ProcessingOutput", step |-> "PreprocessData", item |-> "S3Output.S3Uri",
            output_name |-> "train", path |-> ""]}
    /\ StepReferences(p.steps[3]) =
          {[kind |-> "ProcessingOutput", step |-> "PreprocessData", item |-> "S3Output.S3Uri",
            output_name |-> "test", path |-> ""],
           [kind |-> "ModelArtifacts", step |-> "TrainModel", item |-> "S3ModelArtifacts",
            output_name |-> "", path |-> ""]}
    /\ StepReferences(p.steps[4]) =
          {[kind |-> "PropertyFile", step |-> "", item |-> "EvaluationReport",
            output_name |-> "evaluation", path |-> "metrics.accuracy"]}

\* C3: every reference made by a step of the constructed (and of the published)
\* pipeline names a parameter of the pipeline or an output / property file that a
\* step of the pipeline's step list declares.
C3_NoDanglingReferences ==
    /\ \A r \in Runs : Built(r) => NoDanglingReference(env[r].pipeline)
    /\ \A d \in SeqRange(published) : NoDanglingReference(d.definition)

C3_Witness ==
    /\ Built(1)
    /\ DeclaredReferences(env[1].pipeline)
    /\ published # <<>>
    /\ DeclaredReferences(published[1].definition)

----------------------------------------------------------------------------
\* C4: when cond_step is constructed, accuracy_threshold and the property file
\* EvaluationReport are already constructed, the property file is attached to
\* EvaluateModel, whose output "evaluation" is the property file's output_name, the
\* gate's operands are these two objects, and the pipeline lists accuracy_threshold
\* among its parameters.
C4_GateOperandsDefinedFirst ==
    \A r \in Runs :
        /\ (pc[r] = "cond_step" \/ Has(r, "cond_step")) =>
              /\ Has(r, "accuracy_threshold")
              /\ Has(r, "evaluation_report")
              /\ Has(r, "evaluation_step")
              /\ env[r].evaluation_step.name = "EvaluateModel"
              /\ env[r].evaluation_report \in SeqRange(env[r].evaluation_step.property_files)
              /\ \E o \in SeqRange(env[r].evaluation_step.outputs) :
                    /\ o.output_name = env[r].evaluation_report.output_name
                    /\ o.output_name = "evaluation"
        /\ Has(r, "cond_step") =>
              /\ Len(env[r].cond_step.conditions) = 1
              /\ env[r].cond_step.conditions[1].left =
                    PropertyFileRef(env[r].evaluation_report, "metrics.accuracy")
              /\ env[r].cond_step.conditions[1].right =
                    ParameterRef(env[r].accuracy_threshold)
        /\ Built(r) =>
              /\ env[r].accuracy_threshold \in SeqRange(env[r].pipeline.parameters)
              /\ env[r].evaluation_step \in SeqRange(env[r].pipeline.steps)
              /\ env[r].cond_step \in SeqRange(env[r].pipeline.steps)

C4_Witness ==
    /\ Built(1)
    /\ env[1].cond_step.conditions[1].left.item = "EvaluationReport"
    /\ env[1].cond_step.conditions[1].right.item = "AccuracyThreshold"

----------------------------------------------------------------------------
\* a step without the right-hand operands of its comparisons
WithoutRightOperands(step) ==
    [step EXCEPT !.conditions = [i \in 1..Len(step.conditions) |->
                                    [step.conditions[i] EXCEPT !.right = NoRef]]]

\* the step graph of a pipeline: its steps in order, with their names, inputs and
\* outputs, and the dependency edges between them
Edges(p) ==
    {<<i, j>> \in (1..Len(Nodes(p.steps))) \X (1..Len(Nodes(p.steps))) :
        j \in Dependencies(Nodes(p.steps), i)}

Shape(p) ==
    [steps |-> [i \in 1..Len(p.steps) |-> WithoutRightOperands(p.steps[i])],
     edges |-> Edges(p),
     parameters |-> [i \in 1..Len(p.parameters) |->
                        [name |-> p.parameters[i].name, type |-> p.parameters[i].type]]]

\* the parameters' defaults other than AccuracyThreshold's
OtherDefaults(p) ==
    [i \in 1..Len(p.parameters) |->
        IF p.parameters[i].name = "AccuracyThreshold" THEN p.parameters[i].name
        ELSE p.parameters[i].default_value]

\* C5: two pipelines constructed with any two defaults of AccuracyThreshold have the
\* same step list, step names, inputs and outputs per step and dependency edges;
\* they differ only in the value the AccuracyCheck comparison gets on its right.
C5_ThresholdChangesOnlyComparison ==
    (Built(1) /\ Built(2)) =>
        /\ Shape(env[1].pipeline) = Shape(env[2].pipeline)
        /\ OtherDefaults(env[1].pipeline) = OtherDefaults(env[2].pipeline)
        /\ \A r \in Runs :
              Threshold(NewExecution(env[r].pipeline)) = << thr[r] >>

C5_Witness ==
    /\ Built(1)
    /\ Built(2)
    /\ thr[1] # thr[2]
    /\ Len(env[1].pipeline.steps) = 5
    /\ Edges(env[1].pipeline) = {<<2, 1>>, <<3, 1>>, <<3, 2>>, <<4, 3>>}

----------------------------------------------------------------------------
----------------------------------------------------------------------------
IsRemoteCall(entry) == entry.stmt \in {"upsert", "start"}

\* the remote calls a run has issued, in order
RemoteCalls(l) == [i \in 1..Len(SelectSeq(l, IsRemoteCall)) |-> SelectSeq(l, IsRemoteCall)[i].stmt]

Submitted(r) == \E i \in 1..Len(log[r]) : log[r][i].stmt = "start" /\ log[r][i].ok

\* C6: a run that raises nothing has called upsert once and start once, start after
\* upsert returned, and one execution was started by it; the script ends when start
\* returns, and after submission no object of the script and no submitted
\* definition changes.
C6_TwoRemoteCallsInOrder ==
    [][\A r \in Runs :
          /\ pc'[r] = "done" =>
                /\ RemoteCalls(log'[r]) = << "upsert", "start" >>
                /\ \A i \in 1..Len(log'[r]) : log'[r][i].ok
                /\ Len(execs') = 1
          /\ Submitted(r) =>
                /\ pc[r] = "done"
                /\ pc'[r] = pc[r]
                /\ env'[r] = env[r]
                /\ log'[r] = log[r]
                /\ published' = published
                /\ Len(execs') = Len(execs)
                /\ \A e \in 1..Len(execs) : execs'[e].nodes = execs[e].nodes
      ]_vars

\* the script has ended while the execution it started has not begun its first step
C6_Witness ==
    /\ pc[1] = "done"
    /\ RemoteCalls(log[1]) = << "upsert", "start" >>
    /\ Len(execs) = 1
    /\ \A i \in 1..Len(execs[1].nodes) : execs[1].status[i] = "NotStarted"

----------------------------------------------------------------------------
\* C7: a statement that raises is the last the run executes: no statement is
\* executed twice, nothing follows a failure, and start is called only after an
\* upsert that returned, so no execution exists without a published definition.
C7_FailureTerminates ==
    \A r \in Runs :
        /\ \A i, j \in 1..Len(log[r]) : log[r][i].stmt = log[r][j].stmt => i = j
        /\ \A i \in 1..Len(log[r]) : ~log[r][i].ok => (i = Len(log[r]) /\ pc[r] = "failed")
        /\ pc[r] = "failed" => (log[r] # <<>> /\ ~log[r][Len(log[r])].ok)
        /\ \A i \in 1..Len(log[r]) :
              log[r][i].stmt = "start" =>
                  \E j \in 1..(i - 1) : log[r][j] = [stmt |-> "upsert", ok |-> TRUE]
        /\ execs # <<>> => published # <<>>

\* upsert has failed: start was not called and nothing is published or started
C7_Witness ==
    /\ pc[1] = "failed"
    /\ log[1][Len(log[1])] = [stmt |-> "upsert", ok |-> FALSE]
    /\ published = <<>>
    /\ execs = <<>>

----------------------------------------------------------------------------
\* C9: in every execution TrainModel starts only after PreprocessData has
\* completed, EvaluateModel only after PreprocessData and TrainModel, AccuracyCheck
\* only after EvaluateModel.
C9_DataDependenciesOrderSteps ==
    \A ex \in Executions :
        /\ Started(ex, "TrainModel") => Completed(ex, "PreprocessData")
        /\ Started(ex, "EvaluateModel") =>
              (Completed(ex, "PreprocessData") /\ Completed(ex, "TrainModel"))
        /\ Started(ex, "AccuracyCheck") => Completed(ex, "EvaluateModel")

\* AccuracyCheck runs after the three steps before it, in parallel with
\* RegisterModel, which no dependency path connects to it
C9_Witness ==
    \E ex \in Executions :
        /\ Running(ex, "AccuracyCheck")
        /\ Running(ex, "RegisterModel")
        /\ Completed(ex, "EvaluateModel")

----------------------------------------------------------------------------
\* the nodes reachable from the set S along dependency edges in at most k steps
RECURSIVE Reach(_, _, _)
Reach(nodes, S, k) ==
    IF k = 0 THEN S
    ELSE Reach(nodes, S \cup UNION {Dependencies(nodes, i) : i \in S}, k - 1)

Acyclic(nodes) ==
    \A i \in 1..Len(nodes) :
        i \notin Reach(nodes, Dependencies(nodes, i), Len(nodes))

DistinctNames(nodes) ==
    \A i, j \in 1..Len(nodes) : nodes[i].step.name = nodes[j].step.name => i = j

AllExecutedOnce(ex) ==
    /\ {ex.nodes[i].step.name : i \in 1..Len(ex.nodes)} = StepNames
    /\ \A i \in 1..Len(ex.nodes) : ex.status[i] = "Succeeded" /\ ex.count[i] = 1

SomeStepFailed(ex) == \E i \in 1..Len(ex.nodes) : ex.status[i] = "Failed"

\* C10: the dependency graph of the published steps is acyclic and the step names
\* are distinct; no step runs twice; under a fair engine every started execution in
\* which no step fails reaches the state where each of the five steps has executed
\* exactly once.
C10_EveryStepRunsOnce ==
    /\ [](\A d \in SeqRange(published) :
            Acyclic(Nodes(d.definition.steps)) /\ DistinctNames(Nodes(d.definition.steps)))
    /\ [](\A ex \in Executions : \A i \in 1..Len(ex.nodes) : ex.count[i] <= 1)
    /\ (execs # <<>>) ~> (\A ex \in Executions : AllExecutedOnce(ex) \/ SomeStepFailed(ex))

C10_Witness ==
    /\ execs # <<>>
    /\ AllExecutedOnce(execs[1])

====
